---- MODULE Spec2Model ----
(***************************************************************************)
(* Model of pangalactic.core.cmuster.deserialize: the merge of a batch of  *)
(* serialized domain objects into the orb's store (an SQLAlchemy session   *)
(* over a database) and the runtime caches parameterz, data_elementz and   *)
(* componentz.                                                             *)
(*                                                                         *)
(* One call of deserialize is one action.  The per-record body of its main *)
(* loop is the operator ProcessRecord, folded over the records in          *)
(* DESERIALIZATION_ORDER; the state after a call keeps the call's inputs,  *)
(* the state at its start and its local variables until the caller takes   *)
(* the result (action Return), so that properties of one record's          *)
(* processing can be stated over the states before and after that record.  *)
(***************************************************************************)
EXTENDS Integers, Sequences, FiniteSets, TLC

VARIABLES
    db,             \* committed database content: oid -> object or NoObj
    sess,           \* the session's view (orb.get): db plus uncommitted changes
    pending,        \* oids of objects added to the session and not committed
    trash,          \* oids of deleted objects (pangalactic.trash)
    parameterz,     \* parameter cache: oid -> stamp of the cached parameter
    data_elementz,  \* data element cache: oid -> stamp of the cached element
    componentz,     \* component cache: assembly oid -> set of <<acu, component>>
    pc,             \* "idle", "returned" (a call has returned), "raised"
    ncalls,         \* number of deserialize calls made so far
    call,           \* inputs, start state and locals of the last call
    connected,      \* the client is logged in to the repository
    repo,           \* oids of the user's objects that the repository holds
    steps           \* the steps of the last deletion or login, in order

vars == <<db, sess, pending, trash, parameterz, data_elementz, componentz,
          pc, ncalls, call, connected, repo, steps>>

----------------------------------------------------------------------------
(* Bounds *)

MaxTime == 2
MaxBatch == 2
MaxCalls == 2

----------------------------------------------------------------------------
(* Values *)

\* Python None, for a datetime and for a cache entry that does not exist
None == 0

\* Python None / empty string, for an oid or a reference to an object
NoOid == "NoOid"

\* orb.get() of an oid that is not in the store
NoObj == [cname |-> "NoObj"]

Times == 1..MaxTime

\* the serialized ("cooked") form of a datetime: <<>> when the record has no
\* mod_datetime, <<t>> for the instant t
Cook(t) == IF t = None THEN <<>> ELSE <<t>>

uncook_datetime(s) == IF s = <<>> THEN None ELSE s[1]

\* earlier(a, b): a is strictly before b; an object without a mod_datetime is
\* before every instant
earlier(a, b) == a < b

\* DESERIALIZATION_ORDER with Port moved up, before the Products
OrderWithPortBeforeProducts ==
    << "Relation", "Discipline", "Role", "Organization", "Project", "Person",
       "RoleAssignment", "DataElementDefinition", "ParameterDefinition",
       "ParameterRelation", "PortType", "PortTemplate", "ProductType",
       "ActivityType", "Port", "Product", "Template", "HardwareProduct",
       "SoftwareProduct", "DigitalProduct", "Activity", "Mission",
       "ActCompRel", "Acu", "ProjectSystemUsage", "Model", "Flow",
       "Representation", "RepresentationFile", "Requirement" >>

DESERIALIZATION_ORDER ==
    << "Relation", "Discipline", "Role", "Organization", "Project", "Person",
       "RoleAssignment", "DataElementDefinition", "ParameterDefinition",
       "ParameterRelation", "PortType", "PortTemplate", "ProductType",
       "ActivityType", "Product", "Template", "HardwareProduct",
       "SoftwareProduct", "DigitalProduct", "Activity", "Mission",
       "ActCompRel", "Acu", "ProjectSystemUsage", "Model", "Port", "Flow",
       "Representation", "RepresentationFile", "Requirement" >>

OrderedNames == {DESERIALIZATION_ORDER[i] : i \in 1..Len(DESERIALIZATION_ORDER)}

\* orb.classes: the classes of the ontology; ParameterContext and Document
\* are classes that DESERIALIZATION_ORDER does not name
Classes == OrderedNames \cup {"ParameterContext", "Document"}

\* the subclasses of Product (orb.classes): the classes of the objects a Port
\* can be a port of and an Acu can relate
ProductClasses ==
    {"Product", "Template", "HardwareProduct", "SoftwareProduct",
     "DigitalProduct", "Document"}

\* the classes of the objects a non-inverse foreign key of an object of the
\* class can name (orb.schemas: related_cname and its subclasses)
TargetClasses(cname) ==
    CASE cname = "Port" -> ProductClasses
      [] cname = "Flow" -> {"Port"} \cup ProductClasses \cup {"Project"}
      [] cname = "Acu" -> ProductClasses
      [] cname = "ProjectSystemUsage" -> {"Project"} \cup ProductClasses
      [] cname = "Requirement" -> {"Acu", "ProjectSystemUsage"}
      [] cname = "Activity" -> {"Activity", "Mission"}
      [] OTHER -> {}

\* the non-inverse foreign key fields of a class (orb.schemas)
FKs(cname) ==
    CASE cname = "Port" -> {"of_product"}
      [] cname = "PortTemplate" -> {"of_product"}
      [] cname = "Flow" -> {"start_port", "end_port", "flow_context"}
      [] cname = "Acu" -> {"assembly", "component"}
      [] cname = "ProjectSystemUsage" -> {"project", "system"}
      [] cname = "Requirement" -> {"allocated_to"}
      [] cname = "Activity" -> {"sub_activity_of"}
      [] OTHER -> {}

\* pangalactic.core.meta ONE2M and M2M: the one-to-many and many-to-many
\* fields, the inverses of assembly and component
one2m_or_m2m == {"components", "where_used"}

\* schema['fields'][a]['is_inverse']
is_inverse(a) == a \in one2m_or_m2m

\* the fields of the schema of a class whose related_cname is a class: its
\* foreign keys and, for a Product, the two inverse fields
Relations(cname) ==
    FKs(cname) \cup (IF cname \in ProductClasses THEN one2m_or_m2m ELSE {})

\* the fks of the loop without the test of is_inverse
DirectRelationsAndInverse(cname) == Relations(cname)

\* lines 258-261: fks, the fields with a related class that are not inverse
DirectRelations(cname) == {a \in Relations(cname) : ~is_inverse(a)}

\* the oids of the objects the model's store can hold
Oids ==
    {"p1", "p2", "a1", "u1", "pt1", "f1", "d1", "c1", "r1", "ac1", "ac2",
     "t1", "pd1", "dd1", "pgefobjects:admin"}

\* an oid that records name and that no record defines
Absent == "zz"

Get(s, oid) == IF oid \in DOMAIN s THEN s[oid] ELSE NoObj

\* the oid of the object orb.get(oid) returns, NoOid when it returns None
Resolve(s, oid) == IF Get(s, oid) = NoObj THEN NoOid ELSE oid

EmptyStore == [o \in Oids |-> NoObj]

EmptyCache == [o \in Oids |-> None]

EmptyComponentz == [o \in Oids |-> {}]

----------------------------------------------------------------------------
(* Serialized objects *)

NoCname == ""

\* d.get(fk) for a foreign key field of a serialized object
DGet(d, fk) == IF fk \in DOMAIN d.fk THEN d.fk[fk] ELSE NoOid

\* pangalactic.core.refdata.ref_oids: the oids of the reference data
ref_oids == {"pgefobjects:admin"}

Range(s) == {s[i] : i \in 1..Len(s)}

----------------------------------------------------------------------------
(* The caches of pangalactic.core.parametrics *)

\* deserialize_parms(oid, parm_dict): the cached parameter of the object is
\* replaced when the serialized parameter has a later stamp
deserialize_parms(cache, oid, stamp) ==
    IF oid \in DOMAIN cache /\ earlier(cache[oid], stamp)
    THEN [cache EXCEPT ![oid] = stamp]
    ELSE cache

\* deserialize_des(oid, de_dict): as deserialize_parms, for data elements
deserialize_des(cache, oid, stamp) ==
    IF oid \in DOMAIN cache /\ earlier(cache[oid], stamp)
    THEN [cache EXCEPT ![oid] = stamp]
    ELSE cache

\* refresh_componentz(assembly): the cache entry of the assembly is rebuilt
\* from the Acus of the store that have it as their assembly
Components(s, assembly) ==
    {<<a, s[a].fk["component"]>> :
        a \in {x \in DOMAIN s :
                 /\ s[x] # NoObj
                 /\ s[x].cname = "Acu"
                 /\ s[x].fk["assembly"] = assembly
                 /\ s[x].fk["component"] # NoOid}}

refresh_componentz(cache, s, assembly) ==
    IF assembly \in DOMAIN cache
    THEN [cache EXCEPT ![assembly] = Components(s, assembly)]
    ELSE cache

----------------------------------------------------------------------------
(* deserialize: before the loop *)

\* WithOid without the test: every record is kept
WithOidKeepsAll(serialized) == serialized

\* line 106: the records that are not empty and have an oid
WithOid(serialized) == SelectSeq(serialized, LAMBDA so : so.oid # NoOid)

\* WithoutRefdata without the exclusion
WithoutRefdataKeepsAll(serialized, include_refdata) == serialized

\* lines 145-148: the reference data is excluded unless include_refdata
WithoutRefdata(serialized, include_refdata) ==
    IF include_refdata THEN serialized
    ELSE SelectSeq(serialized, LAMBDA so : so.oid \notin ref_oids)

\* lines 155-166: the records that have a _cname that is a class
Recognized(serialized) ==
    SelectSeq(serialized,
              LAMBDA so : so.cname # NoCname /\ so.cname \in Classes)

\* the place of a class in the loop: its index in DESERIALIZATION_ORDER, and
\* after all of them for the classes of the group 'other'
Rank ==
    [c \in Classes |->
        IF c \in OrderedNames
        THEN CHOOSE i \in 1..Len(DESERIALIZATION_ORDER) :
                 DESERIALIZATION_ORDER[i] = c
        ELSE Len(DESERIALIZATION_ORDER) + 1]

\* InOrder without the groups: the records in arrival order
InOrderByArrival(serialized, ranks) == serialized

RECURSIVE InOrder(_, _)
\* lines 167-177: loadable[group] for each group of order, one after the
\* other: the groups the records belong to, in DESERIALIZATION_ORDER, each
\* with its records in arrival order, then the group 'other'
InOrder(serialized, ranks) ==
    IF ranks = {} THEN <<>>
    ELSE LET r == CHOOSE x \in ranks : \A y \in ranks : x <= y
         IN  SelectSeq(serialized, LAMBDA so : Rank[so.cname] = r)
                \o InOrder(serialized, ranks \ {r})

\* the records the loop processes, in processing order
Processed(serialized, include_refdata) ==
    LET loadable == Recognized(WithoutRefdata(WithOid(serialized),
                                              include_refdata))
    IN  InOrder(loadable, {Rank[loadable[i].cname] : i \in DOMAIN loadable})

----------------------------------------------------------------------------
(* deserialize: the body of the loop, for one record d.                    *)
(* st holds the local variables of the call and the mutable state the loop *)
(* works on: sess, pending, current_oids, parameterz, data_elementz,       *)
(* componentz, objs, created, updates, ignores, output,                    *)
(* recompute_parmz_required, refresh_componentz_required, obj, log.        *)

\* lines 236-254: the data_elements and parameters sections of the record
Embedded(st, d) ==
    LET st1 == IF d.data_elements # None
               THEN [st EXCEPT
                       !.data_elementz =
                           deserialize_des(@, d.oid, d.data_elements),
                       !.log = Append(@, <<"deserialize_des", d.oid>>)]
               ELSE st
    IN  IF d.parameters # None
        THEN [st1 EXCEPT
                !.recompute_parmz_required = TRUE,
                !.parameterz = deserialize_parms(@, d.oid, d.parameters),
                !.log = Append(@, <<"deserialize_parms", d.oid>>)]
        ELSE st1

\* Disposition with the comparison of line 201 turned into "same or later":
\* a record with the stored mod_datetime is applied
DispositionTieApplies(st, d, force_update) ==
    LET db_obj == Get(st.sess, d.oid)
        so_datetime == uncook_datetime(d.mod_datetime)
    IN  IF d.oid \notin st.current_oids THEN "new"
        ELSE IF force_update /\ db_obj # NoObj THEN "update"
        ELSE IF ~(/\ so_datetime # None
                  /\ db_obj # NoObj
                  /\ ~earlier(so_datetime, db_obj.mod_datetime))
             THEN "ignore"
        ELSE IF db_obj # NoObj THEN "update"
        ELSE "skip"

\* Disposition with the comparison of line 201 turned into "different": a
\* record with an earlier mod_datetime is applied too
DispositionAnyChange(st, d, force_update) ==
    LET db_obj == Get(st.sess, d.oid)
        so_datetime == uncook_datetime(d.mod_datetime)
    IN  IF d.oid \notin st.current_oids THEN "new"
        ELSE IF force_update /\ db_obj # NoObj THEN "update"
        ELSE IF ~(/\ so_datetime # None
                  /\ db_obj # NoObj
                  /\ db_obj.mod_datetime # so_datetime)
             THEN "ignore"
        ELSE IF db_obj # NoObj THEN "update"
        ELSE "skip"

\* Disposition without the branch of force_update: the timestamps are
\* compared in every call
DispositionWithoutForce(st, d, force_update) ==
    LET db_obj == Get(st.sess, d.oid)
        so_datetime == uncook_datetime(d.mod_datetime)
    IN  IF d.oid \notin st.current_oids THEN "new"
        ELSE IF ~(/\ so_datetime # None
                  /\ db_obj # NoObj
                  /\ earlier(db_obj.mod_datetime, so_datetime))
             THEN "ignore"
        ELSE IF db_obj # NoObj THEN "update"
        ELSE "skip"

\* lines 188-221: what the timestamp comparison decides for a record:
\* "new" (the oid is not in current_oids), "update", "ignore" or "skip"
Disposition(st, d, force_update) ==
    LET db_obj == Get(st.sess, d.oid)
        so_datetime == uncook_datetime(d.mod_datetime)
    IN  IF d.oid \notin st.current_oids THEN "new"
        ELSE IF force_update /\ db_obj # NoObj THEN "update"
        ELSE IF ~(/\ so_datetime # None
                  /\ db_obj # NoObj
                  /\ earlier(db_obj.mod_datetime, so_datetime))
             THEN "ignore"
        ELSE IF db_obj # NoObj THEN "update"
        ELSE "skip"

\* MarkIgnored with the data_elements and parameters sections processed
\* before the `continue` of line 210
MarkIgnoredAfterEmbedded(st, d, dictify) ==
    [Embedded(st, d) EXCEPT
        !.ignores = Append(@, d.oid),
        !.output = IF dictify
                   THEN [@ EXCEPT !.unmodified = Append(@, d.oid)]
                   ELSE @]

\* lines 205-210: the record is ignored
MarkIgnored(st, d, dictify) ==
    [st EXCEPT !.ignores = Append(@, d.oid),
               !.output = IF dictify
                          THEN [@ EXCEPT !.unmodified = Append(@, d.oid)]
                          ELSE @]

\* lines 196-199 and 216-219: the stored object is to be updated
MarkUpdate(st, d, dictify) ==
    [st EXCEPT !.updates = @ \cup {d.oid},
               !.pending = @ \cup {d.oid},
               !.output = IF dictify
                          THEN [@ EXCEPT !.modified = Append(@, d.oid)]
                          ELSE @]

\* KwFks with the oid the record gives stored as it is, with no orb.get: a
\* reference to an object the store does not hold is kept
KwFksUnresolved(st, d) ==
    [f \in {g \in DirectRelations(d.cname) : DGet(d, g) # NoOid} |->
        DGet(d, f)]

\* lines 258-272: the foreign keys of kw: the fields the record gives a
\* value, each resolved with orb.get
KwFks(st, d) ==
    [f \in {g \in DirectRelations(d.cname) : DGet(d, g) # NoOid} |->
        Resolve(st.sess, DGet(d, f))]

\* MissingRequired with the two ends of an Acu and of a ProjectSystemUsage
\* among the required fields
MissingRequiredOrEnd(d) ==
    {f \in FKs(d.cname) :
        /\ DGet(d, f) = NoOid
        /\ \/ f = "of_product" /\ d.cname = "Port"
           \/ f \in {"start_port", "end_port", "flow_context"}
           \/ f \in {"assembly", "component", "project", "system"}}

\* MissingRequired with of_product required of every kind of Port, of a
\* PortTemplate too (isinstance in the place of cname == 'Port')
MissingRequiredOfSubclass(d) ==
    {f \in FKs(d.cname) :
        /\ DGet(d, f) = NoOid
        /\ \/ f = "of_product" /\ d.cname \in {"Port", "PortTemplate"}
           \/ f \in {"start_port", "end_port", "flow_context"}}

\* lines 273-292: the foreign key fields whose absence from the record makes
\* the loop append the oid to ignores
MissingRequired(d) ==
    {f \in FKs(d.cname) :
        /\ DGet(d, f) = NoOid
        /\ \/ f = "of_product" /\ d.cname = "Port"
           \/ f \in {"start_port", "end_port", "flow_context"}}

\* lines 282 and 292: one append to ignores for each such field
Reject(st, d) ==
    IF MissingRequired(d) = {} THEN st
    ELSE [st EXCEPT !.ignores =
            @ \o [i \in 1..Cardinality(MissingRequired(d)) |-> d.oid]]

\* lines 301-309 and 327-335: the flags an applied record of the class sets
Flags(st, cname) ==
    [st EXCEPT
       !.refresh_componentz_required = @ \/ cname = "Acu",
       !.recompute_parmz_required =
           @ \/ cname \in {"Acu", "ProjectSystemUsage", "Requirement"}]

\* lines 327-333: a created Acu is added to acus, a created
\* ProjectSystemUsage to psus, a created Product to products
Tagged(st, d) ==
    IF d.cname = "Acu" THEN [st EXCEPT !.acus = @ \cup {d.oid}]
    ELSE IF d.cname = "ProjectSystemUsage"
    THEN [st EXCEPT !.psus = @ \cup {d.oid}]
    ELSE IF d.cname \in ProductClasses
    THEN [st EXCEPT !.products = @ \cup {d.oid}]
    ELSE st

\* lines 305-309: an updated ParameterDefinition is handed to
\* update_parm_defz and update_parmz_by_dimz, an updated
\* DataElementDefinition to update_de_defz
DefinitionCaches(st, d) ==
    IF d.cname = "ParameterDefinition"
    THEN [st EXCEPT !.log = @ \o <<<<"update_parm_defz", d.oid>>,
                                   <<"update_parmz_by_dimz", d.oid>>>>]
    ELSE IF d.cname = "DataElementDefinition"
    THEN [st EXCEPT !.log = Append(@, <<"update_de_defz", d.oid>>)]
    ELSE st

\* UpdateObject with mod_datetime left out of kw: the stored mod_datetime
\* stays as it was
UpdateObjectKeepsTime(st, d) ==
    LET old == st.sess[d.oid]
        kw == KwFks(st, d)
        new == [old EXCEPT
                  !.name = d.name,
                  !.fk = [f \in DOMAIN old.fk \cup DOMAIN kw |->
                            IF f \in DOMAIN kw THEN kw[f] ELSE old.fk[f]]]
    IN  DefinitionCaches(Flags([st EXCEPT !.sess[d.oid] = new,
                                          !.objs = Append(@, d.oid),
                                          !.obj = d.oid],
                               d.cname),
                         d)

\* UpdateObject with the foreign keys that the record leaves empty set to
\* None, like the other fields
UpdateObjectClearsFks(st, d) ==
    LET old == st.sess[d.oid]
        kw == KwFks(st, d)
        new == [old EXCEPT
                  !.name = d.name,
                  !.mod_datetime = uncook_datetime(d.mod_datetime),
                  !.fk = [f \in DOMAIN old.fk \cup DOMAIN kw |->
                            IF f \in DOMAIN kw THEN kw[f] ELSE NoOid]]
    IN  DefinitionCaches(Flags([st EXCEPT !.sess[d.oid] = new,
                                          !.objs = Append(@, d.oid),
                                          !.obj = d.oid],
                               d.cname),
                         d)

\* lines 294-311: setattr(obj, a, val) for every item of kw
UpdateObject(st, d) ==
    LET old == st.sess[d.oid]
        kw == KwFks(st, d)
        new == [old EXCEPT
                  !.name = d.name,
                  !.mod_datetime = uncook_datetime(d.mod_datetime),
                  !.fk = [f \in DOMAIN old.fk \cup DOMAIN kw |->
                            IF f \in DOMAIN kw THEN kw[f] ELSE old.fk[f]]]
    IN  DefinitionCaches(Flags([st EXCEPT !.sess[d.oid] = new,
                                          !.objs = Append(@, d.oid),
                                          !.obj = d.oid],
                               d.cname),
                         d)

\* CreateObject without line 324: the oid of the new object is not appended
\* to current_oids
CreateObjectUnlisted(st, d, dictify) ==
    LET kw == KwFks(st, d)
        kwargs == [k \in DOMAIN kw \ one2m_or_m2m |-> kw[k]]
        new == [cname |-> d.cname,
                name |-> d.name,
                mod_datetime |-> uncook_datetime(d.mod_datetime),
                fk |-> [f \in FKs(d.cname) \cup DOMAIN kwargs |->
                          IF f \in DOMAIN kwargs THEN kwargs[f] ELSE NoOid]]
    IN  Flags(Tagged([st EXCEPT
                        !.sess[d.oid] = new,
                        !.pending = @ \cup {d.oid},
                        !.objs = Append(@, d.oid),
                        !.created = Append(@, d.oid),
                        !.output = IF dictify
                                   THEN [@ EXCEPT !.new = Append(@, d.oid)]
                                   ELSE @,
                        !.obj = d.oid],
                     d),
              d.cname)

\* CreateObject with the object stamped when it is made: its mod_datetime is
\* the latest instant, not the record's
CreateObjectStampsNow(st, d, dictify) ==
    LET kw == KwFks(st, d)
        kwargs == [k \in DOMAIN kw \ one2m_or_m2m |-> kw[k]]
        new == [cname |-> d.cname,
                name |-> d.name,
                mod_datetime |-> MaxTime,
                fk |-> [f \in FKs(d.cname) \cup DOMAIN kwargs |->
                          IF f \in DOMAIN kwargs THEN kwargs[f] ELSE NoOid]]
    IN  Flags(Tagged([st EXCEPT
                        !.sess[d.oid] = new,
                        !.pending = @ \cup {d.oid},
                        !.objs = Append(@, d.oid),
                        !.created = Append(@, d.oid),
                        !.current_oids = @ \cup {d.oid},
                        !.output = IF dictify
                                   THEN [@ EXCEPT !.new = Append(@, d.oid)]
                                   ELSE @,
                        !.obj = d.oid],
                     d),
              d.cname)

\* lines 312-335: obj = cls(**kwargs); orb.db.add(obj)
CreateObject(st, d, dictify) ==
    LET kw == KwFks(st, d)
        kwargs == [k \in DOMAIN kw \ one2m_or_m2m |-> kw[k]]
        new == [cname |-> d.cname,
                name |-> d.name,
                mod_datetime |-> uncook_datetime(d.mod_datetime),
                fk |-> [f \in FKs(d.cname) \cup DOMAIN kwargs |->
                          IF f \in DOMAIN kwargs THEN kwargs[f] ELSE NoOid]]
    IN  Flags(Tagged([st EXCEPT
                        !.sess[d.oid] = new,
                        !.pending = @ \cup {d.oid},
                        !.objs = Append(@, d.oid),
                        !.created = Append(@, d.oid),
                        !.current_oids = @ \cup {d.oid},
                        !.output = IF dictify
                                   THEN [@ EXCEPT !.new = Append(@, d.oid)]
                                   ELSE @,
                        !.obj = d.oid],
                     d),
              d.cname)

\* RefreshStep with the entry of the component of obj refreshed, not that
\* of its assembly
RefreshStepOfComponent(st) ==
    LET obj == Get(st.sess, st.obj)
        component == IF obj # NoObj /\ "component" \in DOMAIN obj.fk
                     THEN obj.fk["component"] ELSE NoOid
    IN  IF st.refresh_componentz_required /\ component # NoOid
        THEN [st EXCEPT
                !.componentz = refresh_componentz(@, st.sess, component),
                !.refresh_componentz_required = FALSE,
                !.log = Append(@, <<"refresh_componentz", component>>)]
        ELSE st

\* lines 339-342: the component cache of the assembly of obj is refreshed
RefreshStep(st) ==
    LET obj == Get(st.sess, st.obj)
        assembly == IF obj # NoObj /\ "assembly" \in DOMAIN obj.fk
                    THEN obj.fk["assembly"] ELSE NoOid
    IN  IF st.refresh_componentz_required /\ assembly # NoOid
        THEN [st EXCEPT
                !.componentz = refresh_componentz(@, st.sess, assembly),
                !.refresh_componentz_required = FALSE,
                !.log = Append(@, <<"refresh_componentz", assembly>>)]
        ELSE st

\* lines 293-342: the record is applied to the store unless its oid is in
\* ignores
Apply(st, d, dictify) ==
    RefreshStep(
        IF d.oid \in st.updates /\ d.oid \notin Range(st.ignores)
        THEN UpdateObject(st, d)
        ELSE IF d.oid \notin Range(st.ignores)
        THEN CreateObject(st, d, dictify)
        ELSE st)

\* lines 177-342: one iteration of the loop
ProcessRecord(st, d, opts) ==
    LET disp == Disposition(st, d, opts.force_update)
    IN  IF disp = "ignore" THEN MarkIgnored(st, d, opts.dictify)
        ELSE IF disp = "skip" THEN st
        ELSE LET st1 == IF disp = "update"
                        THEN MarkUpdate(st, d, opts.dictify) ELSE st
             IN  Apply(Reject(Embedded(st1, d), d), d, opts.dictify)

RECURSIVE Loop(_, _, _, _)
\* lines 176-342: the state of the call after the first n records
Loop(st, records, n, opts) ==
    IF n = 0 THEN st
    ELSE ProcessRecord(Loop(st, records, n - 1, opts), records[n], opts)

----------------------------------------------------------------------------
(* deserialize: the whole call *)

\* StartOfCall for a call that starts before the call before it has
\* finished: its current_oids are those that call started with
StartOfCallOverlapping ==
    [sess |-> sess,
     pending |-> pending,
     current_oids |-> IF pc = "returned" THEN call.start.current_oids
                      ELSE {o \in DOMAIN sess : sess[o] # NoObj},
     parameterz |-> parameterz,
     data_elementz |-> data_elementz,
     componentz |-> componentz,
     objs |-> <<>>,
     created |-> <<>>,
     updates |-> {},
     ignores |-> <<>>,
     output |-> [new |-> <<>>, modified |-> <<>>, unmodified |-> <<>>,
                 error |-> <<>>],
     recompute_parmz_required |-> FALSE,
     refresh_componentz_required |-> FALSE,
     req_oids |-> {},
     acus |-> {},
     psus |-> {},
     products |-> {},
     obj |-> NoOid,
     log |-> <<>>]

\* lines 119-144 and 153: the local variables at the start of the loop;
\* current_oids = orb.get_oids()
StartOfCall ==
    [sess |-> sess,
     pending |-> pending,
     current_oids |-> {o \in DOMAIN sess : sess[o] # NoObj},
     parameterz |-> parameterz,
     data_elementz |-> data_elementz,
     componentz |-> componentz,
     objs |-> <<>>,
     created |-> <<>>,
     updates |-> {},
     ignores |-> <<>>,
     output |-> [new |-> <<>>, modified |-> <<>>, unmodified |-> <<>>,
                 error |-> <<>>],
     recompute_parmz_required |-> FALSE,
     refresh_componentz_required |-> FALSE,
     req_oids |-> {},
     acus |-> {},
     psus |-> {},
     products |-> {},
     obj |-> NoOid,
     log |-> <<>>]

\* ReturnsAtOnce without the second return (lines 111-113): only the empty
\* input returns at once
ReturnsAtOnceWhenEmpty(serialized) == Len(serialized) = 0

\* lines 101-113: the call returns [] at once
ReturnsAtOnce(serialized) == Len(WithOid(serialized)) = 0

\* lines 375-377: orb.recompute_parmz() after the commit
Recompute(st, opts) ==
    IF st.recompute_parmz_required /\ ~opts.force_no_recompute
    THEN [st EXCEPT !.log = Append(@, <<"recompute_parmz", NoOid>>)]
    ELSE st

\* the objects of the class in the store that name one of the targets in
\* the field: the value of an inverse field of the targets
Inverse(s, cname, field, targets) ==
    {o \in DOMAIN s :
        /\ s[o] # NoObj
        /\ s[o].cname = cname
        /\ field \in DOMAIN s[o].fk
        /\ s[o].fk[field] \in targets}

\* lines 354-373: the Acus and ProjectSystemUsages of the created products
\* join the created ones, the requirements allocated to any of them are
\* collected in req_oids and refresh_req_allocz is called for each
RefreshAllocations(st) ==
    LET acus == st.acus
                  \cup Inverse(st.sess, "Acu", "component", st.products)
        psus == st.psus
                  \cup Inverse(st.sess, "ProjectSystemUsage", "system",
                               st.products)
        req_oids == Inverse(st.sess, "Requirement", "allocated_to",
                            acus \cup psus)
    IN  IF req_oids # {}
        THEN [st EXCEPT
                !.req_oids = req_oids,
                !.recompute_parmz_required = TRUE,
                !.log = Append(@, <<"refresh_req_allocz", NoOid>>)]
        ELSE st

\* lines 343-382: orb.db.commit() succeeds and the call returns
AfterCommit(st, opts) ==
    Recompute(RefreshAllocations(
                  [st EXCEPT !.pending = {},
                             !.log = Append(@, <<"commit", NoOid>>)]),
              opts)

\* the state of a call that starts in state st0, at its return when the
\* commit succeeds and at the raise of orb.db.commit() when it fails
Run(st0, serialized, opts, commit_ok) ==
    LET records == Processed(serialized, opts.include_refdata)
        st == Loop(st0, records, Len(records), opts)
    IN  IF ReturnsAtOnce(serialized) THEN st0
        ELSE IF commit_ok THEN AfterCommit(st, opts)
        ELSE st

\* lines 103, 113 and 379-382: what the call returns: [] at once, else
\* output with dictify and objs without; nothing when the commit raises
Result(serialized, opts, commit_ok, end) ==
    IF ReturnsAtOnce(serialized) THEN [kind |-> "list", value |-> <<>>]
    ELSE IF ~commit_ok THEN [kind |-> "none", value |-> <<>>]
    ELSE IF opts.dictify THEN [kind |-> "dict", value |-> end.output]
    ELSE [kind |-> "list", value |-> end.objs]

NoCall ==
    [serialized |-> <<>>, opts |-> <<>>, records |-> <<>>, committed |-> FALSE,
     raised |-> FALSE, redelivered |-> FALSE, start |-> <<>>, end |-> <<>>,
     result |-> <<>>]

\* one call at a time (the host is single-threaded), MaxCalls calls in all
CanCall == pc = "idle" /\ ncalls < MaxCalls

\* the effect of a call of deserialize on the store, the session and the
\* caches; redelivered: the caller passes the batch of the call before
Call(serialized, opts, commit_ok, redelivered) ==
    /\ LET end == Run(StartOfCall, serialized, opts, commit_ok)
       IN  call' = [serialized |-> serialized,
                    opts |-> opts,
                    records |-> IF ReturnsAtOnce(serialized) THEN <<>>
                                ELSE Processed(serialized,
                                               opts.include_refdata),
                    committed |-> ~ReturnsAtOnce(serialized) /\ commit_ok,
                    raised |-> ~ReturnsAtOnce(serialized) /\ ~commit_ok,
                    redelivered |-> redelivered,
                    start |-> StartOfCall,
                    end |-> end,
                    result |-> Result(serialized, opts, commit_ok, end)]
    /\ pc' = IF call'.raised THEN "raised" ELSE "returned"
    /\ db' = IF call'.committed THEN call'.end.sess ELSE db
    /\ sess' = call'.end.sess
    /\ pending' = call'.end.pending
    /\ parameterz' = call'.end.parameterz
    /\ data_elementz' = call'.end.data_elementz
    /\ componentz' = call'.end.componentz
    /\ UNCHANGED trash

\* deserialize(orb, serialized, ...)
Deserialize(serialized, opts, commit_ok) ==
    /\ CanCall
    /\ ncalls' = ncalls + 1
    /\ Call(serialized, opts, commit_ok, FALSE)
    /\ UNCHANGED <<connected, repo, steps>>

\* the batch that has just been merged is delivered and merged once more,
\* with the same options
Redeliver(commit_ok) ==
    /\ pc = "returned"
    /\ call.committed
    /\ ~call.redelivered
    /\ UNCHANGED <<ncalls, connected, repo, steps>>
    /\ Call(call.serialized, call.opts, commit_ok, TRUE)

\* the caller takes the result of the call
Return ==
    /\ pc = "returned"
    /\ pc' = "idle"
    /\ call' = NoCall
    /\ UNCHANGED <<db, sess, pending, trash, parameterz, data_elementz,
                   componentz, ncalls, connected, repo, steps>>

\* the object is named by a foreign key of another object of the store
Used(s, oid) ==
    \E o \in DOMAIN s :
        /\ s[o] # NoObj
        /\ \E f \in DOMAIN s[o].fk : s[o].fk[f] = oid

\* orb.delete with the deletion issued to the repository whether the
\* client is connected or not
DeleteAlwaysRemote(oid) ==
    /\ pc = "idle"
    /\ db[oid] # NoObj
    /\ ~Used(db, oid)
    /\ trash' = trash \cup {oid}
    /\ db' = [db EXCEPT ![oid] = NoObj]
    /\ sess' = [sess EXCEPT ![oid] = NoObj]
    /\ parameterz' = [parameterz EXCEPT ![oid] = None]
    /\ data_elementz' = [data_elementz EXCEPT ![oid] = None]
    /\ componentz' = [r \in DOMAIN componentz |->
                         IF r = oid THEN {}
                         ELSE {e \in componentz[r] : e[1] # oid}]
    /\ repo' = repo \ {oid}
    /\ steps' = <<<<"trash", oid>>, <<"delete", oid>>, <<"remote", oid>>>>
    /\ UNCHANGED <<pending, pc, ncalls, call, connected>>

\* orb.delete: the object is serialized and added to the trash, then leaves
\* the store, the session and the caches; when the client is connected the
\* object is deleted from the repository too.  An object in use in an
\* assembly is not deleted
Delete(oid) ==
    /\ pc = "idle"
    /\ db[oid] # NoObj
    /\ ~Used(db, oid)
    /\ trash' = trash \cup {oid}
    /\ db' = [db EXCEPT ![oid] = NoObj]
    /\ sess' = [sess EXCEPT ![oid] = NoObj]
    /\ parameterz' = [parameterz EXCEPT ![oid] = None]
    /\ data_elementz' = [data_elementz EXCEPT ![oid] = None]
    /\ componentz' = [r \in DOMAIN componentz |->
                         IF r = oid THEN {}
                         ELSE {e \in componentz[r] : e[1] # oid}]
    /\ repo' = IF connected THEN repo \ {oid} ELSE repo
    /\ steps' = <<<<"trash", oid>>, <<"delete", oid>>>>
                   \o (IF connected THEN <<<<"remote", oid>>>> ELSE <<>>)
    /\ UNCHANGED <<pending, pc, ncalls, call, connected>>

----------------------------------------------------------------------------
(* The inputs of the model *)

Names == {"a", "b"}

SO(oid, cname, t, name, fk, parameters, data_elements) ==
    [oid |-> oid, cname |-> cname, mod_datetime |-> Cook(t), name |-> name,
     fk |-> fk, parameters |-> parameters, data_elements |-> data_elements]

NoFks == [f \in {} |-> NoOid]

\* serialized HardwareProducts: every mod_datetime (and none), in two
\* versions: named "a" and bare, named "b" with parameters and data elements
ProductRecords ==
    {SO("p1", "HardwareProduct", t, x[1], NoFks, x[2], x[2]) :
        t \in 0..MaxTime, x \in {<<"a", None>>, <<"b", 1>>}}

\* serialized Ports: of_product naming p1, naming an object that does not
\* exist, or empty (a Port that carries parameters)
PortRecords ==
    {SO("pt1", "Port", t, "a", [f \in {"of_product"} |-> x[1]], x[2], None) :
        t \in Times, x \in {<<"p1", None>>, <<Absent, None>>, <<NoOid, 1>>}}

\* serialized Acus: complete, and without component
AcuRecords ==
    {SO("a1", "Acu", 1, "a",
        [f \in {"assembly", "component"} |->
            IF f = "assembly" THEN "p1" ELSE x], None, None) :
        x \in {"p1", NoOid}}

\* a serialized ProjectSystemUsage whose project does not exist
UsageRecords ==
    {SO("u1", "ProjectSystemUsage", 1, "a",
        [f \in {"project", "system"} |->
            IF f = "project" THEN Absent ELSE "p1"], None, None)}

\* serialized Flows, complete and without start_port
FlowRecords ==
    {SO("f1", "Flow", 1, "a",
        [f \in {"start_port", "end_port", "flow_context"} |->
            IF f = "start_port" THEN x
            ELSE IF f = "end_port" THEN "pt1" ELSE "p1"], None, None) :
        x \in {"pt1", NoOid}}

\* the owner of the Ports: one serialized HardwareProduct
OwnerRecords == {SO("p1", "HardwareProduct", 1, "a", NoFks, None, None)}

\* the start and end of the Flows: one complete serialized Port
EndRecords ==
    {SO("pt1", "Port", 1, "a", [f \in {"of_product"} |-> "p1"], None, None)}

\* a serialized PortTemplate without of_product, and a later version of the
\* Port without of_product
BareRecords ==
    {SO("t1", "PortTemplate", 1, "a", [f \in {"of_product"} |-> NoOid],
        None, None),
     SO("pt1", "Port", 2, "b", [f \in {"of_product"} |-> NoOid],
        None, None)}

\* the records of the batches of SpecTemplates: a product, a Port of it, and
\* a Port and a PortTemplate without of_product
TemplateRecords == OwnerRecords \cup EndRecords \cup BareRecords

\* the records of the batches of SpecCommit: a record without oid, and two
\* versions of a HardwareProduct, one with parameters and data elements
CommitRecords ==
    {SO(NoOid, "HardwareProduct", 1, "b", NoFks, 1, 1),
     SO("p1", "HardwareProduct", 1, "b", NoFks, 1, 1),
     SO("p1", "HardwareProduct", 2, "a", NoFks, None, None)}

\* the records of the batches of SpecTwins: three records of one oid, two
\* HardwareProducts and a Document
TwinRecords ==
    {SO("p1", "HardwareProduct", 1, "a", NoFks, None, None),
     SO("p1", "HardwareProduct", 2, "b", NoFks, None, None),
     SO("p1", "Document", 2, "b", NoFks, None, None)}

\* the records of the batches of SpecDefinitions: a ParameterDefinition and
\* a DataElementDefinition, each at two instants
DefinitionRecords ==
    {SO(x[1], x[2], t, "a", NoFks, None, None) :
        x \in {<<"pd1", "ParameterDefinition">>,
               <<"dd1", "DataElementDefinition">>},
        t \in 1..2}

\* a serialized Document and a serialized ParameterContext: objects of
\* classes that DESERIALIZATION_ORDER does not name
DocumentRecords == {SO("d1", "Document", 1, "a", NoFks, None, None)}

ContextRecords == {SO("c1", "ParameterContext", 1, "a", NoFks, None, None)}

\* a serialized Port of the Document
DocumentPortRecords ==
    {SO("pt1", "Port", 1, "b", [f \in {"of_product"} |-> "d1"], None, None)}

\* an empty serialized object, one without oid, one without _cname, and one
\* with a _cname that is not a class, the last two with the oid of p1 and
\* with parameters and data elements
DroppedRecords ==
    {SO(NoOid, NoCname, None, "", NoFks, None, None),
     SO(NoOid, "HardwareProduct", 1, "b", NoFks, 1, 1),
     SO("p1", NoCname, 2, "b", NoFks, 1, 1),
     SO("p1", "Gizmo", 2, "b", NoFks, 1, 1)}

\* serialized reference data: the Person pgefobjects:admin, at two instants,
\* the later with parameters and data elements
RefdataRecords ==
    {SO("pgefobjects:admin", "Person", 1, "a", NoFks, None, None),
     SO("pgefobjects:admin", "Person", 2, "b", NoFks, 1, 1)}

\* two serialized HardwareProducts
PairRecords ==
    {SO(o, "HardwareProduct", 1, "a", NoFks, None, None) : o \in {"p1", "p2"}}

\* a serialized Acu that makes p2 a component of p1 and a later version of
\* it that makes p1 a component of p2
MovingAcuRecords ==
    {SO("a1", "Acu", 1, "a",
        [f \in {"assembly", "component"} |->
            IF f = "assembly" THEN "p1" ELSE "p2"], None, None),
     SO("a1", "Acu", 2, "b",
        [f \in {"assembly", "component"} |->
            IF f = "assembly" THEN "p2" ELSE "p1"], None, None)}

\* the records of the batches of SpecAssembly: two products and the
\* versions of an Acu between them
AssemblyRecords == PairRecords \cup MovingAcuRecords

\* a serialized Requirement allocated to the Acu
RequirementRecords ==
    {SO("r1", "Requirement", 1, "a", [f \in {"allocated_to"} |-> "a1"],
        None, None)}

\* the records of the batches of SpecAllocation: a product, the versions
\* of an Acu and a Requirement
AllocationRecords ==
    OwnerRecords \cup MovingAcuRecords \cup RequirementRecords

\* a serialized Activity, a serialized sub-activity of it, and two later
\* versions of the sub-activity: one that is no sub-activity any more and
\* has no name ("": d.get('name') is None), and one that still is
ActivityRecords ==
    {SO("ac1", "Activity", 1, "a", [f \in {"sub_activity_of"} |-> NoOid],
        None, None),
     SO("ac2", "Activity", 1, "b", [f \in {"sub_activity_of"} |-> "ac1"],
        None, None)}
        \cup {SO("ac2", "Activity", 2, IF x = NoOid THEN "" ELSE "b",
                  [f \in {"sub_activity_of"} |-> x], None, None) :
                    x \in {NoOid, "ac1"}}

\* the records of the batches of SpecActivities
PlanRecords == ActivityRecords

\* the records of the batches of Spec: the versions of an object
Records == ProductRecords

\* the records of the batches of SpecPorts: an object and its owner
OwnedRecords == OwnerRecords \cup PortRecords

\* the records of the batches of SpecLinks: an object and its usages
LinkRecords == OwnerRecords \cup AcuRecords \cup UsageRecords

\* the records of the batches of SpecFlows: a Port, its owner and Flows
ConnectedRecords == OwnerRecords \cup EndRecords \cup FlowRecords

\* the batches: the sequences of 1..MaxBatch records
BatchesOf(records) == UNION {[1..n -> records] : n \in 1..MaxBatch}

Batches == BatchesOf(Records)

OwnedBatches == BatchesOf(OwnedRecords)

LinkBatches == BatchesOf(LinkRecords)

ConnectedBatches == BatchesOf(ConnectedRecords)

\* the records of the batches of SpecOrder: objects of classes that
\* DESERIALIZATION_ORDER names and of classes that it does not name
MixedRecords ==
    OwnerRecords \cup EndRecords \cup DocumentRecords \cup ContextRecords

MixedBatches == BatchesOf(MixedRecords)

AssemblyBatches == BatchesOf(AssemblyRecords)

PairBatches == BatchesOf(PairRecords)

PlanBatches == BatchesOf(PlanRecords)

TemplateBatches == BatchesOf(TemplateRecords)

TwinBatches == BatchesOf(TwinRecords)

DefinitionBatches == BatchesOf(DefinitionRecords)

\* the batches of SpecCommit, the empty one among them
CommitBatches == {<<>>} \cup BatchesOf(CommitRecords)

AllocationBatches == BatchesOf(AllocationRecords)

\* the records of the batches of SpecOwners: a Port of an object of a class
\* that DESERIALIZATION_ORDER names, a Port of an object of a class that it
\* does not name, and the two objects
HoldingRecords ==
    OwnerRecords \cup EndRecords \cup DocumentPortRecords
        \cup DocumentRecords

HoldingBatches == BatchesOf(HoldingRecords)

\* the records of the batches of SpecDrop: two objects and the serialized
\* objects that the call drops
SundryRecords == OwnerRecords \cup DocumentRecords \cup DroppedRecords

\* the batches of SpecDrop, the empty one among them
SundryBatches == {<<>>} \cup BatchesOf(SundryRecords)

\* the records of the batches of SpecRefdata: an object and reference data
SeedRecords == OwnerRecords \cup RefdataRecords

SeedBatches == BatchesOf(SeedRecords)

\* the records of the batches of SpecForce: an object and its Port, at two
\* instants and without of_product
ForcedRecords ==
    OwnerRecords
        \cup {SO("pt1", "Port", t, "a", [f \in {"of_product"} |-> "p1"],
                  None, None) : t \in {1, 2}}
        \cup {SO("pt1", "Port", 1, "b", [f \in {"of_product"} |-> NoOid],
                  1, None)}

ForcedBatches == BatchesOf(ForcedRecords)

\* serialized HardwareProducts that carry an inverse field, components or
\* where_used, at two instants
InverseRecords ==
    {SO("p1", "HardwareProduct", t, "b", [f \in {a} |-> "a1"], None, None) :
        t \in {1, 2}, a \in one2m_or_m2m}

\* the records of the batches of SpecInverse: an object with and without an
\* inverse field
BackRecords == OwnerRecords \cup InverseRecords

BackBatches == BatchesOf(BackRecords)

\* the options of the calls of SpecOrder: the defaults, with dictify
PlainOptions ==
    [include_refdata : {FALSE}, dictify : {TRUE},
     force_no_recompute : {FALSE}, force_update : {FALSE}]

\* the options of the calls of SpecDrop: with and without dictify
DictOptions ==
    [include_refdata : {FALSE}, dictify : BOOLEAN,
     force_no_recompute : {FALSE}, force_update : {FALSE}]

\* the options of the calls of SpecRefdata: with and without include_refdata
\* and force_update
RefdataOptions ==
    [include_refdata : BOOLEAN, dictify : {TRUE},
     force_no_recompute : {FALSE}, force_update : BOOLEAN]

\* the options of the calls of SpecForce: force_update
ForceOptions ==
    [include_refdata : {FALSE}, dictify : {TRUE},
     force_no_recompute : {FALSE}, force_update : {TRUE}]

Options ==
    [include_refdata : {FALSE}, dictify : {TRUE},
     force_no_recompute : {FALSE}, force_update : BOOLEAN]

\* the options of the calls of SpecTwins: with and without dictify, with and
\* without force_update
TwinOptions ==
    [include_refdata : {FALSE}, dictify : BOOLEAN,
     force_no_recompute : {FALSE}, force_update : BOOLEAN]

----------------------------------------------------------------------------
(* The specification *)

Init ==
    /\ db = EmptyStore
    /\ sess = EmptyStore
    /\ pending = {}
    /\ trash = {}
    /\ parameterz = EmptyCache
    /\ data_elementz = EmptyCache
    /\ componentz = EmptyComponentz
    /\ pc = "idle"
    /\ ncalls = 0
    /\ call = NoCall
    /\ connected = FALSE
    /\ repo = {}
    /\ steps = <<>>

Merge(batches) ==
    /\ CanCall
    /\ \E serialized \in batches, opts \in Options, commit_ok \in BOOLEAN :
          Deserialize(serialized, opts, commit_ok)

MergeWith(batches, options) ==
    /\ CanCall
    /\ \E serialized \in batches, opts \in options, commit_ok \in BOOLEAN :
          Deserialize(serialized, opts, commit_ok)

Remerge == \E commit_ok \in BOOLEAN : Redeliver(commit_ok)

Remove == \E oid \in Oids : Delete(oid)

\* the oids of the objects of the user that the repository can hold
SyncOids == {"p1", "p2"}

\* the serialized object the repository holds for an oid
RepoRecord(oid) == SO(oid, "HardwareProduct", 1, "a", NoFks, None, None)

RECURSIVE SetToSeq(_)
\* the elements of a set, one after the other
SetToSeq(S) ==
    IF S = {} THEN <<>>
    ELSE LET x == CHOOSE y \in S : TRUE
         IN  <<x>> \o SetToSeq(S \ {x})

\* the oids of the objects of the local store
LocalOids == {o \in Oids : db[o] # NoObj}

\* RestoreSet without the trash: every object the client does not have
RestoreSetIgnoringTrash(remote, local, tombstoned) == remote \ local

\* the objects that the sync at login pushes to the client: those of the
\* user in the repository that neither exist locally nor are in the trash
RestoreSet(remote, local, tombstoned) == (remote \ local) \ tombstoned

\* the repository comes to hold an object created by the user, saved from
\* this client or from another one
Publish(oid) ==
    /\ pc = "idle"
    /\ oid \notin repo
    /\ repo' = repo \cup {oid}
    /\ UNCHANGED <<db, sess, pending, trash, parameterz, data_elementz,
                   componentz, pc, ncalls, call, connected, steps>>

\* login: the user's objects are synced; the missing ones are pushed to the
\* client, which merges them with deserialize (steps keeps the number of
\* that call and the objects pushed)
Login(commit_ok) ==
    /\ CanCall
    /\ ~connected
    /\ connected' = TRUE
    /\ ncalls' = ncalls + 1
    /\ LET pushed == SetToSeq(RestoreSet(repo, LocalOids, trash))
       IN  /\ steps' = <<<<"login", ncalls + 1>>>>
                          \o [k \in DOMAIN pushed |-> <<"restore", pushed[k]>>]
           /\ \E opts \in PlainOptions :
                 Call([k \in DOMAIN pushed |-> RepoRecord(pushed[k])],
                      opts, commit_ok, FALSE)
    /\ UNCHANGED repo

\* logout, or the connection is lost
Logout ==
    /\ pc = "idle"
    /\ connected
    /\ connected' = FALSE
    /\ UNCHANGED <<db, sess, pending, trash, parameterz, data_elementz,
                   componentz, pc, ncalls, call, repo, steps>>

Sync ==
    \/ \E oid \in SyncOids : Publish(oid)
    \/ \E commit_ok \in BOOLEAN : Login(commit_ok)
    \/ Logout

Next == Merge(Batches) \/ Remerge \/ Return \/ Remove

Spec == Init /\ [][Next]_vars

NextPorts == Merge(OwnedBatches) \/ Remerge \/ Return \/ Remove

SpecPorts == Init /\ [][NextPorts]_vars

NextLinks == Merge(LinkBatches) \/ Remerge \/ Return \/ Remove

SpecLinks == Init /\ [][NextLinks]_vars

NextFlows == Merge(ConnectedBatches) \/ Remerge \/ Return \/ Remove

SpecFlows == Init /\ [][NextFlows]_vars

NextOrder ==
    MergeWith(MixedBatches, PlainOptions) \/ Remerge \/ Return \/ Remove

SpecOrder == Init /\ [][NextOrder]_vars

NextOwners ==
    MergeWith(HoldingBatches, PlainOptions) \/ Remerge \/ Return \/ Remove

SpecOwners == Init /\ [][NextOwners]_vars

NextDrop ==
    MergeWith(SundryBatches, DictOptions) \/ Remerge \/ Return \/ Remove

SpecDrop == Init /\ [][NextDrop]_vars

NextRefdata ==
    MergeWith(SeedBatches, RefdataOptions) \/ Remerge \/ Return \/ Remove

SpecRefdata == Init /\ [][NextRefdata]_vars

NextInverse ==
    MergeWith(BackBatches, PlainOptions) \/ Remerge \/ Return \/ Remove

SpecInverse == Init /\ [][NextInverse]_vars

NextAssembly ==
    MergeWith(AssemblyBatches, PlainOptions) \/ Remerge \/ Return \/ Remove

SpecAssembly == Init /\ [][NextAssembly]_vars

NextAllocation ==
    MergeWith(AllocationBatches, PlainOptions) \/ Remerge \/ Return \/ Remove

SpecAllocation == Init /\ [][NextAllocation]_vars

NextSync ==
    MergeWith(PairBatches, PlainOptions) \/ Remerge \/ Return \/ Remove
        \/ Sync

SpecSync == Init /\ [][NextSync]_vars

NextActivities ==
    MergeWith(PlanBatches, Options) \/ Remerge \/ Return \/ Remove

SpecActivities == Init /\ [][NextActivities]_vars

NextTemplates ==
    MergeWith(TemplateBatches, Options) \/ Remerge \/ Return \/ Remove

SpecTemplates == Init /\ [][NextTemplates]_vars

NextCommit ==
    MergeWith(CommitBatches, PlainOptions) \/ Remerge \/ Return \/ Remove

SpecCommit == Init /\ [][NextCommit]_vars

NextTwins ==
    MergeWith(TwinBatches, TwinOptions) \/ Remerge \/ Return \/ Remove

SpecTwins == Init /\ [][NextTwins]_vars

NextDefinitions ==
    MergeWith(DefinitionBatches, PlainOptions) \/ Remerge \/ Return
        \/ Remove

SpecDefinitions == Init /\ [][NextDefinitions]_vars

NextForce ==
    MergeWith(ForcedBatches, ForceOptions) \/ Remerge \/ Return \/ Remove

SpecForce == Init /\ [][NextForce]_vars

----------------------------------------------------------------------------
(* The records of the last call, one by one *)

\* the indices of the records the last call processed
Idx == DOMAIN call.records

\* the state of the last call before and after its i-th record
Before(i) == Loop(call.start, call.records, i - 1, call.opts)

After(i) == Loop(call.start, call.records, i, call.opts)

\* the record's oid is the oid of an object of the store
Stored(st, d) == Get(st.sess, d.oid) # NoObj

\* the record's mod_datetime is strictly later than the stored object's
StrictlyLater(st, d) ==
    /\ uncook_datetime(d.mod_datetime) # None
    /\ st.sess[d.oid].mod_datetime < uncook_datetime(d.mod_datetime)

\* processing the record called deserialize_parms / deserialize_des for it
Handed(pre, post, what, d) ==
    \E k \in (Len(pre.log) + 1)..Len(post.log) : post.log[k] = <<what, d.oid>>

\* the stored object has the scalar fields of the record
HasFieldsOf(obj, d) ==
    /\ obj # NoObj
    /\ obj.name = d.name
    /\ obj.mod_datetime = uncook_datetime(d.mod_datetime)

----------------------------------------------------------------------------
(* Claims *)

\* C1 (tie-break): without force_update, a record whose oid is in the store
\* and whose mod_datetime equals the stored object's is marked ignored
\* (unmodified), is not marked updated (modified), and processing it changes
\* no object of the store.
TieIsIgnored ==
    \A i \in Idx :
        LET d == call.records[i]
            pre == Before(i)
            post == After(i)
        IN  (/\ ~call.opts.force_update
             /\ Stored(pre, d)
             /\ uncook_datetime(d.mod_datetime) = pre.sess[d.oid].mod_datetime)
            => /\ post.ignores = Append(pre.ignores, d.oid)
               /\ post.output.unmodified =
                     IF call.opts.dictify
                     THEN Append(pre.output.unmodified, d.oid)
                     ELSE pre.output.unmodified
               /\ post.updates = pre.updates
               /\ post.output.modified = pre.output.modified
               /\ post.objs = pre.objs
               /\ post.sess = pre.sess

\* C1 witness: a call has returned that processed a record with the stored
\* mod_datetime and another name than the stored object's.
TieIsIgnoredWitness ==
    /\ pc = "returned"
    /\ \E i \in Idx :
          LET d == call.records[i]
              pre == Before(i)
          IN  /\ ~call.opts.force_update
              /\ Stored(pre, d)
              /\ uncook_datetime(d.mod_datetime) = pre.sess[d.oid].mod_datetime
              /\ d.mod_datetime # <<>>
              /\ d.name # pre.sess[d.oid].name
              /\ sess[d.oid] = call.start.sess[d.oid]

\* the records of the batch that the loop is to process, in arrival order:
\* those with an oid and a known class, without the reference data unless
\* include_refdata
Arrived ==
    SelectSeq(call.serialized,
              LAMBDA so : /\ so.oid # NoOid
                          /\ so.cname \in Classes
                          /\ (call.opts.include_refdata
                                 \/ so.oid \notin ref_oids))

\* C2 (as claimed): in a committed merge without force_update, a record whose
\* oid is in the store with a mod_datetime (and that has the foreign keys its
\* class requires) is applied as an update if and only if its mod_datetime
\* is strictly later than the stored one; otherwise it is marked ignored and
\* the stored object is unchanged.
UpdatedIffStrictlyLater ==
    \A i \in Idx :
        LET d == call.records[i]
            pre == Before(i)
            post == After(i)
        IN  (/\ call.committed
             /\ ~call.opts.force_update
             /\ Stored(pre, d)
             /\ pre.sess[d.oid].mod_datetime # None
             /\ MissingRequired(d) = {})
            => IF StrictlyLater(pre, d)
               THEN /\ HasFieldsOf(post.sess[d.oid], d)
                    /\ post.objs = Append(pre.objs, d.oid)
               ELSE /\ post.ignores = Append(pre.ignores, d.oid)
                    /\ post.sess = pre.sess

\* C3 (as claimed): a committed merge, with any options, leaves no object of
\* the store with an earlier mod_datetime than it had before the merge.
TimestampNeverDecreases ==
    call.committed =>
        \A o \in Oids :
            (call.start.sess[o] # NoObj /\ db[o] # NoObj)
                => call.start.sess[o].mod_datetime <= db[o].mod_datetime

\* C3 (amended): a committed merge without force_update leaves no object of
\* the store with an earlier mod_datetime than it had before the merge.
TimestampNeverDecreasesUnforced ==
    (call.committed /\ ~call.opts.force_update) =>
        \A o \in Oids :
            (call.start.sess[o] # NoObj /\ db[o] # NoObj)
                => call.start.sess[o].mod_datetime <= db[o].mod_datetime

\* C3 witness: a merge without force_update has been committed that processed
\* a record with an earlier mod_datetime than the stored object's.
TimestampNeverDecreasesWitness ==
    /\ call.committed
    /\ ~call.opts.force_update
    /\ \E i \in Idx :
          LET d == call.records[i]
          IN  /\ call.start.sess[d.oid] # NoObj
              /\ uncook_datetime(d.mod_datetime)
                    < call.start.sess[d.oid].mod_datetime
              /\ db[d.oid].mod_datetime = call.start.sess[d.oid].mod_datetime

TrashedStaysDeleted == \A o \in trash : db[o] = NoObj

\* C6 (as claimed): no Port of the store is without of_product and no Flow
\* of the store is without start_port, end_port or flow_context.
RequiredFksResolved ==
    \A o \in Oids :
        db[o] # NoObj =>
            /\ db[o].cname = "Port" => db[o].fk["of_product"] # NoOid
            /\ db[o].cname = "Flow" =>
                  \A f \in {"start_port", "end_port", "flow_context"} :
                      db[o].fk[f] # NoOid

\* C7 (as claimed): processing a record that is rejected for an empty
\* required foreign key changes neither the store nor the parameter and data
\* element caches, refreshes no component cache and does not ask for the
\* recomputation of the parameters.
RejectedHasNoEffect ==
    call.committed =>
        \A i \in Idx :
            LET d == call.records[i]
                pre == Before(i)
                post == After(i)
            IN  (/\ MissingRequired(d) # {}
                 /\ ~Stored(pre, d))
                => /\ post.sess = pre.sess
                   /\ post.parameterz = pre.parameterz
                   /\ post.data_elementz = pre.data_elementz
                   /\ post.componentz = pre.componentz
                   /\ post.recompute_parmz_required
                          = pre.recompute_parmz_required

\* the record is a new Acu or ProjectSystemUsage one of whose two ends is
\* empty or names an object that is not in the store
LinkWithoutEnd(st, d) ==
    /\ d.cname \in {"Acu", "ProjectSystemUsage"}
    /\ ~Stored(st, d)
    /\ \E f \in FKs(d.cname) : Resolve(st.sess, DGet(d, f)) = NoOid

\* C8 (as claimed): a new Acu or ProjectSystemUsage record without one of
\* its two ends is rejected: it is marked ignored and no object is created.
LinkWithoutEndRejected ==
    \A i \in Idx :
        LET d == call.records[i]
            pre == Before(i)
            post == After(i)
        IN  LinkWithoutEnd(pre, d)
            => /\ post.sess[d.oid] = NoObj
               /\ d.oid \in Range(post.ignores)

\* C8 (amended): a new Acu or ProjectSystemUsage record without one of its
\* two ends is not rejected: the object is created, with that end unset and
\* the other end as resolved, and its oid is not marked ignored.
LinkWithoutEndCreated ==
    \A i \in Idx :
        LET d == call.records[i]
            pre == Before(i)
            post == After(i)
        IN  LinkWithoutEnd(pre, d)
            => /\ HasFieldsOf(post.sess[d.oid], d)
               /\ post.sess[d.oid].cname = d.cname
               /\ \A f \in FKs(d.cname) :
                     post.sess[d.oid].fk[f] = Resolve(pre.sess, DGet(d, f))
               /\ post.created = Append(pre.created, d.oid)
               /\ d.oid \notin Range(post.ignores)

\* C8 witness: a committed merge has put in the store an Acu without
\* component and a ProjectSystemUsage without project.
LinkWithoutEndWitness ==
    /\ call.committed
    /\ \E i \in Idx : LinkWithoutEnd(Before(i), call.records[i])
    /\ db["a1"] # NoObj /\ db["a1"].fk["component"] = NoOid
    /\ db["u1"] # NoObj /\ db["u1"].fk["project"] = NoOid

\* C9 (as claimed): when a merge fails, none of its effects remain: the
\* database, the session, its pending objects and the caches are as they
\* were before the call; when it succeeds, the database holds all of them.
FailedMergeLeavesNothing ==
    /\ call.raised =>
          /\ db = call.start.sess
          /\ sess = call.start.sess
          /\ pending = call.start.pending
          /\ parameterz = call.start.parameterz
          /\ data_elementz = call.start.data_elementz
          /\ componentz = call.start.componentz
    /\ call.committed => db = call.end.sess /\ pending = {}

\* the record carries parameters, or data elements, and processing it did
\* not call deserialize_parms, or deserialize_des, for them
NotHanded(pre, post, d) ==
    \/ d.parameters # None /\ ~Handed(pre, post, "deserialize_parms", d)
    \/ d.data_elements # None /\ ~Handed(pre, post, "deserialize_des", d)

\* C10 (as claimed): the parameters and data elements of every processed
\* record are handed to deserialize_parms and deserialize_des, whatever the
\* timestamp comparison says.
EmbeddedAlwaysHanded ==
    \A i \in Idx :
        ~NotHanded(Before(i), After(i), call.records[i])

\* C10 (amended): the parameters and data elements of a record are handed to
\* deserialize_parms and deserialize_des unless the record is ignored by the
\* timestamp comparison (its oid is in the store, force_update is not set and
\* its mod_datetime is not strictly later than the stored one); then they
\* are not, and the caches are left as they are.
EmbeddedHandedUnlessIgnored ==
    \A i \in Idx :
        LET d == call.records[i]
            pre == Before(i)
            post == After(i)
        IN  IF /\ Stored(pre, d)
               /\ ~call.opts.force_update
               /\ ~StrictlyLater(pre, d)
            THEN /\ ~Handed(pre, post, "deserialize_parms", d)
                 /\ ~Handed(pre, post, "deserialize_des", d)
                 /\ post.parameterz = pre.parameterz
                 /\ post.data_elementz = pre.data_elementz
            ELSE ~NotHanded(pre, post, d)

\* C10 witness: a call has returned that ignored a record with parameters
\* and data elements for an object that has none in the caches.
EmbeddedIgnoredWitness ==
    /\ pc = "returned"
    /\ \E i \in Idx :
          LET d == call.records[i]
              pre == Before(i)
          IN  /\ Stored(pre, d)
              /\ ~call.opts.force_update
              /\ ~StrictlyLater(pre, d)
              /\ d.parameters # None
              /\ d.data_elements # None
              /\ parameterz[d.oid] = None
              /\ data_elementz[d.oid] = None

Created(i) == After(i).created = Append(Before(i).created, call.records[i].oid)

Rejected(i) ==
    /\ After(i).output.unmodified = Before(i).output.unmodified
    /\ Len(After(i).ignores) > Len(Before(i).ignores)

RejectedOids == {call.records[i].oid : i \in {k \in Idx : Rejected(k)}}

\* the categories of the outcome an oid is in
Categories(oid) ==
    {c \in {"new", "modified", "unmodified"} :
        oid \in Range(call.end.output[c])}
      \cup (IF oid \in RejectedOids THEN {"rejected"} ELSE {})

\* C13 (as claimed): after a committed merge every oid of the batch is in at
\* most one of the categories new, modified, unmodified and rejected, and an
\* oid reported as modified is the oid of an object the merge updated and is
\* not in ignores.
OutcomeIsPartition ==
    call.committed =>
        \A i \in Idx :
            LET oid == call.records[i].oid
            IN  /\ Cardinality(Categories(oid)) <= 1
                /\ oid \in Range(call.end.output.modified)
                      => /\ oid \in Range(call.end.objs)
                         /\ oid \notin Range(call.end.ignores)

\* C14 (as claimed): when a call returns, the oid of every record that was
\* rejected for an empty required foreign key is in the 'error' list of the
\* outcome.
RejectedIsReported ==
    pc = "returned" =>
        \A i \in Idx :
            Rejected(i) =>
                call.records[i].oid \in Range(call.end.output.error)

\* the serialized object is empty or has no oid, no _cname or a _cname that
\* is not a class
Dropped(so) ==
    \/ so.oid = NoOid
    \/ so.cname = NoCname
    \/ so.cname \notin Classes

\* the batch without the records that are dropped
Kept == SelectSeq(call.serialized, LAMBDA so : ~Dropped(so))

\* the oids the call has put in a category of its outcome, in ignores, in
\* updates or in the list of the objects it returns
Touched(st) ==
    Range(st.objs) \cup Range(st.created) \cup Range(st.ignores)
        \cup st.updates \cup Range(st.output.new)
        \cup Range(st.output.modified) \cup Range(st.output.unmodified)
        \cup Range(st.output.error)

\* C15: when a call returns, the store, the caches and the outcome are those
\* of the call with the batch without its empty records and its records
\* without oid, without _cname or with an unknown _cname; and the object and
\* the cache entries of the oid of such a record, when no other record of the
\* batch has it, are as before the call and the oid is in no category.
DroppedAreAbsent ==
    pc = "returned" =>
        /\ LET alone == Run(call.start, Kept, call.opts, TRUE)
           IN  \A v \in {"sess", "parameterz", "data_elementz", "componentz",
                          "objs", "created", "updates", "ignores", "output",
                          "recompute_parmz_required"} :
                  call.end[v] = alone[v]
        /\ \A k \in DOMAIN call.serialized :
              LET so == call.serialized[k]
              IN  (/\ Dropped(so)
                   /\ \A n \in DOMAIN Kept : Kept[n].oid # so.oid)
                  => /\ so.oid \notin Touched(call.end)
                     /\ so.oid \in Oids =>
                           /\ db[so.oid] = call.start.sess[so.oid]
                           /\ parameterz[so.oid] = call.start.parameterz[so.oid]
                           /\ data_elementz[so.oid]
                                  = call.start.data_elementz[so.oid]

\* C15 witness: a committed merge has created an object from a batch that
\* also held a record with parameters, the oid of p1 and no known _cname,
\* and p1 is not in the store.
DroppedAreAbsentWitness ==
    /\ call.committed
    /\ call.end.created # <<>>
    /\ \E k \in DOMAIN call.serialized :
          /\ Dropped(call.serialized[k])
          /\ call.serialized[k].oid = "p1"
          /\ call.serialized[k].parameters # None
    /\ db["p1"] = NoObj

\* C16: a call without include_refdata leaves the objects and the cache
\* entries of the reference oids as they were and puts no reference oid in a
\* category of its outcome, whatever the records and force_update.
RefdataIsSkipped ==
    (pc # "idle" /\ ~call.opts.include_refdata) =>
        \A o \in ref_oids :
            /\ call.end.sess[o] = call.start.sess[o]
            /\ call.end.parameterz[o] = call.start.parameterz[o]
            /\ call.end.data_elementz[o] = call.start.data_elementz[o]
            /\ call.end.componentz[o] = call.start.componentz[o]
            /\ o \notin Touched(call.end)
            /\ \A i \in Idx : call.records[i].oid # o

\* C16 witness: a call with force_update and without include_refdata has
\* returned whose batch held a later record, with parameters, of a
\* reference object of the store.
RefdataIsSkippedWitness ==
    /\ pc = "returned"
    /\ ~call.opts.include_refdata
    /\ call.opts.force_update
    /\ \E k \in DOMAIN call.serialized :
          LET so == call.serialized[k]
          IN  /\ so.oid \in ref_oids
              /\ so.parameters # None
              /\ call.start.sess[so.oid] # NoObj
              /\ StrictlyLater(call.start, so)

\* C20 (as claimed): a call with dictify that returns, returns a dictionary
\* with the keys new, modified, unmodified and error.
DictifyReturnsDict ==
    (pc = "returned" /\ call.opts.dictify) =>
        /\ call.result.kind = "dict"
        /\ DOMAIN call.result.value
              = {"new", "modified", "unmodified", "error"}

\* the record, or a record of its oid that the call processed before it, has
\* an empty required foreign key
MissingHereOrBefore(i) ==
    \E j \in 1..i :
        /\ call.records[j].oid = call.records[i].oid
        /\ MissingRequired(call.records[j]) # {}

\* C17 (as claimed): in a call with force_update, every record whose oid is
\* the oid of an object of the store is applied as an update, whatever its
\* mod_datetime: the object gets the fields of the record and is among the
\* objects of the call.
ForcedIsApplied ==
    (pc # "idle" /\ call.opts.force_update) =>
        \A i \in Idx :
            LET d == call.records[i]
                pre == Before(i)
                post == After(i)
            IN  Stored(pre, d) =>
                    /\ HasFieldsOf(post.sess[d.oid], d)
                    /\ post.objs = Append(pre.objs, d.oid)

\* C17 (amended): in a call with force_update, every record whose oid is the
\* oid of an object of the store is marked as an update whatever its
\* mod_datetime, and is applied as one unless it, or a record of its oid
\* processed before it, has an empty required foreign key; then the object
\* is left as it is.
ForcedIsAppliedUnlessRejected ==
    (pc # "idle" /\ call.opts.force_update) =>
        \A i \in Idx :
            LET d == call.records[i]
                pre == Before(i)
                post == After(i)
            IN  Stored(pre, d) =>
                    /\ d.oid \in post.updates
                    /\ IF MissingHereOrBefore(i)
                       THEN /\ post.sess = pre.sess
                            /\ post.objs = pre.objs
                       ELSE /\ HasFieldsOf(post.sess[d.oid], d)
                            /\ post.objs = Append(pre.objs, d.oid)
                            /\ \A f \in DOMAIN KwFks(pre, d) :
                                  post.sess[d.oid].fk[f] = KwFks(pre, d)[f]

\* C17 witness: a committed merge with force_update has applied a record
\* with an earlier mod_datetime than the stored object's.
ForcedIsAppliedWitness ==
    /\ call.committed
    /\ call.opts.force_update
    /\ \E i \in Idx :
          LET d == call.records[i]
              pre == Before(i)
          IN  /\ Stored(pre, d)
              /\ uncook_datetime(d.mod_datetime) # None
              /\ uncook_datetime(d.mod_datetime)
                    < pre.sess[d.oid].mod_datetime
              /\ HasFieldsOf(After(i).sess[d.oid], d)

\* the i-th record created or updated an object
Applied(i) == After(i).objs = Append(Before(i).objs, call.records[i].oid)

\* C18: a record that creates or updates an object leaves it with the
\* record's mod_datetime (none when the record has none), and a call leaves
\* every object either with the mod_datetime it had or with the mod_datetime
\* of a record of its oid in the batch.
StampedByRecordsOnly ==
    pc # "idle" =>
        /\ \A i \in Idx :
              LET d == call.records[i]
              IN  Applied(i) =>
                      After(i).sess[d.oid].mod_datetime
                          = uncook_datetime(d.mod_datetime)
        /\ \A o \in Oids :
              LET old == call.start.sess[o]
                  new == call.end.sess[o]
              IN  (new # NoObj
                     /\ (old = NoObj \/ new.mod_datetime # old.mod_datetime))
                    => \E k \in DOMAIN call.serialized :
                          /\ call.serialized[k].oid = o
                          /\ uncook_datetime(call.serialized[k].mod_datetime)
                                = new.mod_datetime

\* C18 witness: a committed merge has created an object from a record
\* without mod_datetime and updated one to the later instant of its record,
\* an instant earlier than the latest one.
StampedByRecordsWitness ==
    /\ call.committed
    /\ \E i \in Idx :
          LET d == call.records[i]
          IN  /\ Applied(i)
              /\ Stored(Before(i), d)
              /\ StrictlyLater(Before(i), d)
              /\ uncook_datetime(d.mod_datetime) < MaxTime
              /\ db[d.oid].mod_datetime = uncook_datetime(d.mod_datetime)
    /\ \E i \in Idx :
          /\ Applied(i)
          /\ ~Stored(Before(i), call.records[i])
          /\ uncook_datetime(call.records[i].mod_datetime) = None

\* the object has a value for an inverse, one-to-many or many-to-many field
Populated(obj) == obj # NoObj /\ DOMAIN obj.fk \cap one2m_or_m2m # {}

\* C19: no object of the session or of the database has a value for an
\* inverse, one-to-many or many-to-many field, whether a record created it
\* or updated it and whatever the record carried.
InverseNeverPopulated ==
    /\ \A o \in Oids : ~Populated(sess[o]) /\ ~Populated(db[o])
    /\ pc # "idle" =>
          \A i \in Idx : ~Populated(After(i).sess[call.records[i].oid])

\* C19 witness: a committed merge has created an object from a record that
\* carries an inverse field and updated an object from such a record.
InverseNeverPopulatedWitness ==
    /\ call.committed
    /\ \E i \in Idx :
          /\ Applied(i)
          /\ ~Stored(Before(i), call.records[i])
          /\ DOMAIN call.records[i].fk \cap one2m_or_m2m # {}
    /\ \E i \in Idx :
          /\ Applied(i)
          /\ Stored(Before(i), call.records[i])
          /\ DOMAIN call.records[i].fk \cap one2m_or_m2m # {}
          /\ db[call.records[i].oid].name = call.records[i].name

\* C21 (as claimed): between merges, the component cache entry of every
\* object is the set of the components that the Acus of the store give it,
\* after any sequence of merges and deletions.
ComponentCacheConsistent ==
    pc = "idle" => \A r \in Oids : componentz[r] = Components(db, r)

\* the roots whose component cache entry the last call refreshed
RefreshedRoots ==
    {call.end.log[k][2] :
        k \in {j \in DOMAIN call.end.log :
                 call.end.log[j][1] = "refresh_componentz"}}

\* the assemblies of the Acus the last call created or updated
AcuRoots ==
    {After(i).sess[call.records[i].oid].fk["assembly"] :
        i \in {j \in Idx : Applied(j) /\ call.records[j].cname = "Acu"}}
      \ {NoOid}

\* C22: a call refreshes the component cache entry of no root but the
\* assemblies of the Acus it created or updated, and leaves the entry of
\* every other root as it was; a call that creates or updates no Acu
\* refreshes none.
ComponentCacheLocal ==
    pc # "idle" =>
        /\ RefreshedRoots \subseteq AcuRoots
        /\ \A r \in Oids \ AcuRoots :
              call.end.componentz[r] = call.start.componentz[r]

\* C22 witness: a committed merge has created or updated Acus of one
\* assembly, whose entry it changed, while the store holds another product.
ComponentCacheLocalWitness ==
    /\ call.committed
    /\ \E r1 \in Oids :
          /\ AcuRoots = {r1}
          /\ RefreshedRoots = {r1}
          /\ componentz[r1] # call.start.componentz[r1]
          /\ \E r2 \in Oids \ {r1} :
                /\ db[r2] # NoObj
                /\ db[r2].cname = "HardwareProduct"

\* the requirements whose allocation the last call changed: those it
\* created or updated with an allocation and those allocated to an Acu or a
\* ProjectSystemUsage that it created or updated
Reallocated ==
    {r \in Oids :
        /\ call.end.sess[r] # NoObj
        /\ call.end.sess[r].cname = "Requirement"
        /\ call.end.sess[r].fk["allocated_to"] # NoOid
        /\ \E i \in Idx :
              /\ Applied(i)
              /\ call.records[i].oid
                    \in {r, call.end.sess[r].fk["allocated_to"]}}

\* C23 (as claimed): a committed merge has called refresh_req_allocz for
\* every requirement whose allocation it changed.
AllocationsRefreshed ==
    call.committed => Reallocated \subseteq call.end.req_oids

\* C24 (as claimed): in the course of a call, every refresh of the component
\* cache, every refresh of the requirement allocations and every
\* recomputation of the parameters comes after the commit of that call.
RefreshesFollowCommit ==
    pc # "idle" =>
        \A k \in DOMAIN call.end.log :
            call.end.log[k][1] \in {"refresh_componentz",
                                    "refresh_req_allocz", "recompute_parmz"}
                => \E j \in 1..(k - 1) : call.end.log[j][1] = "commit"

\* the last call is the merge of a login and has not been taken
AfterLogin ==
    /\ pc # "idle"
    /\ ~call.redelivered
    /\ steps # <<>>
    /\ steps[1][1] = "login"
    /\ steps[1][2] = ncalls

\* the oids of the objects the login pushed to the client
Pushed == {steps[k][2] : k \in 2..Len(steps)}

Swapped(serialized, i, j) ==
    [k \in DOMAIN serialized |->
        IF k = i THEN serialized[j]
        ELSE IF k = j THEN serialized[i]
        ELSE serialized[k]]

\* the batches that differ from the batch by the exchange of two records
\* of one type
SameTypeSwaps(serialized) ==
    {Swapped(serialized, i, j) :
        <<i, j>> \in {x \in (DOMAIN serialized) \X (DOMAIN serialized) :
                        /\ x[1] < x[2]
                        /\ serialized[x[1]].cname = serialized[x[2]].cname}}

\* C27 (as claimed): the store after a committed merge is the store that
\* the merge of the same batch with two records of one type exchanged would
\* have left.
OrderWithinTypeIrrelevant ==
    call.committed =>
        \A b \in SameTypeSwaps(call.serialized) :
            Run(call.start, b, call.opts, TRUE).sess = call.end.sess

StartAfter(st) ==
    [st EXCEPT !.pending = {},
               !.current_oids = {o \in DOMAIN st.sess : st.sess[o] # NoObj},
               !.objs = <<>>,
               !.created = <<>>,
               !.updates = {},
               !.ignores = <<>>,
               !.output = [new |-> <<>>, modified |-> <<>>,
                           unmodified |-> <<>>, error |-> <<>>],
               !.recompute_parmz_required = FALSE,
               !.refresh_componentz_required = FALSE,
               !.req_oids = {},
               !.acus = {},
               !.psus = {},
               !.products = {},
               !.obj = NoOid,
               !.log = <<>>]

\* the store after the committed merge of the batch <<d>> and then of the
\* batch <<e>>, from the state st
AfterBoth(st, d, e, opts) ==
    Run(StartAfter(Run(st, <<d>>, opts, TRUE)), <<e>>, opts, TRUE).sess

\* the records of the batches that have the oid of d and another
\* mod_datetime
OtherVersions(d) ==
    {e \in PlanRecords : e.oid = d.oid /\ e.mod_datetime # d.mod_datetime}

\* C29 (as claimed): when a record has been merged in a batch of its own
\* without force_update, then for every record of the same oid with another
\* mod_datetime the store after the merge of that record too is the store
\* that the two merges in the other order would have left, and the object
\* has the fields and the foreign keys of the later record.
LastWriterWins ==
    (/\ call.committed
     /\ ~call.opts.force_update
     /\ Len(call.serialized) = 1) =>
        LET d == call.serialized[1]
        IN  \A e \in OtherVersions(d) :
                LET later == IF uncook_datetime(d.mod_datetime)
                                   < uncook_datetime(e.mod_datetime)
                             THEN e ELSE d
                    this == AfterBoth(call.start, d, e, call.opts)
                    that == AfterBoth(call.start, e, d, call.opts)
                IN  /\ this = that
                    /\ call.start.sess[d.oid] = NoObj =>
                          /\ HasFieldsOf(this[d.oid], later)
                          /\ \A f \in DOMAIN this[d.oid].fk :
                                this[d.oid].fk[f]
                                    = Resolve(call.start.sess, DGet(later, f))

\* the foreign key fields of a class that a record may leave empty
OptionalFks(cname) ==
    {f \in DirectRelations(cname) :
        /\ ~(f = "of_product" /\ cname = "Port")
        /\ f \notin {"start_port", "end_port", "flow_context"}}

\* C30 (no deferred resolution): a record that creates an object and names,
\* in a foreign key that is not required, an object the store does not hold
\* when the record is processed leaves that field unset; and a field that
\* is unset in a stored object when a call starts is set when the call
\* ends only if the call applied a record of that object with force_update
\* or with a mod_datetime strictly later than the stored one.
DanglingStaysUnset ==
    pc # "idle" =>
        /\ \A i \in Idx :
              LET d == call.records[i]
              IN  Created(i) =>
                    \A f \in OptionalFks(d.cname) :
                        (/\ DGet(d, f) # NoOid
                         /\ Get(Before(i).sess, DGet(d, f)) = NoObj) =>
                            After(i).sess[d.oid].fk[f] = NoOid
        /\ \A o \in Oids :
              (call.start.sess[o] # NoObj /\ call.end.sess[o] # NoObj) =>
                \A f \in DOMAIN call.start.sess[o].fk :
                    (/\ call.start.sess[o].fk[f] = NoOid
                     /\ call.end.sess[o].fk[f] # NoOid) =>
                        \E i \in Idx :
                            /\ call.records[i].oid = o
                            /\ Applied(i)
                            /\ \/ call.opts.force_update
                               \/ earlier(Before(i).sess[o].mod_datetime,
                                          uncook_datetime(
                                              call.records[i].mod_datetime))

\* a sub-activity created before its parent activity was in the store has
\* no parent after the call that delivered the parent and the record of the
\* sub-activity once more
DanglingStaysUnsetWitness ==
    /\ pc = "returned" /\ call.committed /\ ~call.opts.force_update
    /\ call.start.sess["ac1"] = NoObj
    /\ call.start.sess["ac2"] # NoObj
    /\ call.start.sess["ac2"].mod_datetime = 1
    /\ \E i \in Idx : call.records[i].oid = "ac1" /\ Created(i)
    /\ \E i \in Idx :
          /\ call.records[i].oid = "ac2"
          /\ call.records[i].fk["sub_activity_of"] = "ac1"
    /\ db["ac1"] # NoObj
    /\ db["ac2"] # NoObj
    /\ db["ac2"].fk["sub_activity_of"] = NoOid

\* C31 (of_product is required of a Port only): a PortTemplate record
\* without of_product is not rejected, and creates the PortTemplate when its
\* oid is not in the store; a Port record without of_product creates no
\* object and leaves a stored Port as it is, whatever its mod_datetime and
\* with force_update too.
OnlyPortsNeedProduct ==
    pc # "idle" =>
        \A i \in Idx :
            LET d == call.records[i]
                pre == Before(i)
                post == After(i)
            IN  /\ (d.cname = "PortTemplate" /\ DGet(d, "of_product") = NoOid)
                      => /\ ~Rejected(i)
                         /\ d.oid \notin pre.current_oids =>
                               /\ Created(i)
                               /\ post.sess[d.oid].cname = "PortTemplate"
                               /\ HasFieldsOf(post.sess[d.oid], d)
                /\ (d.cname = "Port" /\ DGet(d, "of_product") = NoOid)
                      => /\ ~Applied(i)
                         /\ post.sess = pre.sess

\* a forced call with a later Port record without of_product, for a stored
\* Port, and a PortTemplate record without of_product: the PortTemplate is
\* created and the Port is as it was
OnlyPortsNeedProductWitness ==
    /\ pc = "returned" /\ call.committed /\ call.opts.force_update
    /\ call.start.sess["pt1"] # NoObj
    /\ call.start.sess["t1"] = NoObj
    /\ \E i \in Idx :
          /\ call.records[i].cname = "Port"
          /\ DGet(call.records[i], "of_product") = NoOid
          /\ earlier(call.start.sess["pt1"].mod_datetime,
                     uncook_datetime(call.records[i].mod_datetime))
    /\ \E i \in Idx : call.records[i].cname = "PortTemplate" /\ Created(i)
    /\ db["t1"] # NoObj
    /\ db["t1"].fk["of_product"] = NoOid
    /\ db["pt1"] = call.start.sess["pt1"]

\* the number of calls of orb.db.commit() in a log
Commits(log) == Cardinality({k \in DOMAIN log : log[k][1] = "commit"})

\* C32 (one commit): a call whose input is empty or has no record with an
\* oid does not commit and leaves the session, the pending objects and the
\* caches as they were; every other call that returns has committed exactly
\* once, and that after the last record: there is no commit up to the end
\* of the loop, and the commit is the first thing after it.
CommitsOnce ==
    pc = "returned" =>
        LET n == Len(call.records)
            loop == Loop(call.start, call.records, n, call.opts)
        IN  IF \A k \in DOMAIN call.serialized : call.serialized[k].oid = NoOid
            THEN /\ ~call.committed
                 /\ call.end = call.start
                 /\ Commits(call.end.log) = 0
            ELSE /\ call.committed
                 /\ Commits(call.end.log) = 1
                 /\ \A i \in 0..n :
                       Commits(Loop(call.start, call.records, i,
                                    call.opts).log) = 0
                 /\ Len(call.end.log) > Len(loop.log)
                 /\ call.end.log[Len(loop.log) + 1][1] = "commit"

\* a call has processed two records, handing on the data elements or the
\* parameters of one of them, and has committed after them
CommitsOnceWitness ==
    /\ pc = "returned"
    /\ Len(call.records) = 2
    /\ Len(call.end.log) >= 2
    /\ call.end.log[1][1] \in {"deserialize_des", "deserialize_parms"}
    /\ Commits(call.end.log) = 1
    /\ db = call.end.sess

\* the record is stopped at the comparison of the mod_datetimes: its oid is
\* appended to ignores and nothing else changes
Stopped(pre, post, d) ==
    /\ post.ignores = Append(pre.ignores, d.oid)
    /\ post.sess = pre.sess
    /\ post.updates = pre.updates
    /\ post.created = pre.created

\* the record passes as a record of a stored object: its oid is among the
\* updates and no object is created
Passed(pre, post, d) ==
    /\ d.oid \in post.updates
    /\ post.created = pre.created

\* C33 (as claimed): a call creates at most one object for an oid, and a
\* record whose oid is the oid of an object that the call has created is a
\* record of a stored object: it passes when its mod_datetime is strictly
\* later than that of the object and is stopped when it is not.
OneCreationPerOid ==
    pc # "idle" =>
        /\ \A m, n \in DOMAIN call.end.created :
              call.end.created[m] = call.end.created[n] => m = n
        /\ \A i \in Idx :
              LET d == call.records[i]
                  pre == Before(i)
                  post == After(i)
              IN  d.oid \in Range(pre.created) =>
                    IF StrictlyLater(pre, d)
                    THEN Passed(pre, post, d)
                    ELSE Stopped(pre, post, d)

\* C33 (amended): the same, and with force_update the record passes
\* whatever its mod_datetime.
OneCreationPerOidGated ==
    pc # "idle" =>
        /\ \A m, n \in DOMAIN call.end.created :
              call.end.created[m] = call.end.created[n] => m = n
        /\ \A i \in Idx :
              LET d == call.records[i]
                  pre == Before(i)
                  post == After(i)
              IN  d.oid \in Range(pre.created) =>
                    IF call.opts.force_update \/ StrictlyLater(pre, d)
                    THEN Passed(pre, post, d)
                    ELSE Stopped(pre, post, d)

\* a call has created an object from the first of two records of one oid
\* and of two classes and has updated it from the second, which is later
OneCreationPerOidWitness ==
    /\ pc = "returned" /\ call.committed /\ ~call.opts.force_update
    /\ Len(call.records) = 2
    /\ call.records[1].oid = call.records[2].oid
    /\ call.records[1].cname # call.records[2].cname
    /\ Created(1)
    /\ call.end.created = <<call.records[1].oid>>
    /\ call.records[2].oid \in call.end.updates
    /\ db[call.records[1].oid].cname = call.records[1].cname

\* the i-th record updated a stored object
Updated(i) == Applied(i) /\ ~Created(i)

\* C34 (update): a record that updates an object gives it its name and its
\* mod_datetime, none when the record has none; a foreign key that the
\* record leaves empty keeps the value it had, and the class of the object
\* is not changed.
UpdateOverwritesScalars ==
    pc # "idle" =>
        \A i \in Idx :
            LET d == call.records[i]
                old == Before(i).sess[d.oid]
                new == After(i).sess[d.oid]
            IN  Updated(i) =>
                    /\ new.name = d.name
                    /\ new.mod_datetime = uncook_datetime(d.mod_datetime)
                    /\ new.cname = old.cname
                    /\ \A f \in DOMAIN old.fk :
                          DGet(d, f) = NoOid => new.fk[f] = old.fk[f]

\* a record without name and without sub_activity_of has updated a named
\* sub-activity: the name is gone and the parent activity is kept
UpdateOverwritesScalarsWitness ==
    /\ pc = "returned" /\ call.committed
    /\ \E i \in Idx :
          /\ Updated(i)
          /\ call.records[i].oid = "ac2"
          /\ call.records[i].name = ""
          /\ DGet(call.records[i], "sub_activity_of") = NoOid
          /\ Before(i).sess["ac2"].name = "b"
          /\ Before(i).sess["ac2"].fk["sub_activity_of"] = "ac1"
    /\ db["ac2"].name = ""
    /\ db["ac2"].mod_datetime = 2
    /\ db["ac2"].fk["sub_activity_of"] = "ac1"

\* the places of the calls of a function in a log
Places(log, what) == {k \in DOMAIN log : log[k][1] = what}

\* C35 (as claimed): a call that returns has called orb.recompute_parmz at
\* most once, and after the commit; with force_no_recompute it has not
\* called it; without, it has called it exactly when a record that created
\* or updated an object carried parameters or was an Acu, a
\* ProjectSystemUsage or a Requirement, or when the allocations of a
\* requirement were refreshed.
RecomputesExactlyWhenNeeded ==
    (pc = "returned" /\ call.committed) =>
        LET log == call.end.log
            ran == Places(log, "recompute_parmz")
            needed ==
                \/ \E i \in Idx :
                      /\ Applied(i)
                      /\ \/ call.records[i].parameters # None
                         \/ call.records[i].cname
                               \in {"Acu", "ProjectSystemUsage", "Requirement"}
                \/ Places(log, "refresh_req_allocz") # {}
        IN  /\ Cardinality(ran) <= 1
            /\ \A k \in ran : \E c \in Places(log, "commit") : c < k
            /\ call.opts.force_no_recompute => ran = {}
            /\ ~call.opts.force_no_recompute => (ran # {} <=> needed)

\* C36 (as claimed): the list that a call without dictify returns holds the
\* oids of the objects that a record of the call created or updated and no
\* other, each once, in the order in which they were processed.
ListOfAppliedOnce ==
    (pc = "returned" /\ call.committed /\ ~call.opts.dictify) =>
        LET objs == call.result.value
        IN  /\ call.result.kind = "list"
            /\ Range(objs) = {call.records[i].oid :
                                 i \in {k \in Idx : Applied(k)}}
            /\ \A m, n \in DOMAIN objs : objs[m] = objs[n] => m = n
            /\ \A m, n \in DOMAIN objs :
                  m < n =>
                    \E i, j \in Idx :
                        /\ i < j
                        /\ Applied(i) /\ call.records[i].oid = objs[m]
                        /\ Applied(j) /\ call.records[j].oid = objs[n]

\* C37 (as claimed): a record that creates or updates a ParameterDefinition
\* hands the object to update_parm_defz, and a record that creates or
\* updates a DataElementDefinition hands it to update_de_defz.
DefinitionCachesFollow ==
    pc # "idle" =>
        \A i \in Idx :
            LET d == call.records[i]
            IN  Applied(i) =>
                    /\ d.cname = "ParameterDefinition" =>
                          Handed(Before(i), After(i), "update_parm_defz", d)
                    /\ d.cname = "DataElementDefinition" =>
                          Handed(Before(i), After(i), "update_de_defz", d)

====
